---- MODULE Spec2Model ----
(***************************************************************************)
(* A model of TipTapEditorBase (src/exports/elements/tip-tap-editor-base.ts)*)
(* the host element that owns one TipTap editor, mirrors its content into a *)
(* bound <input>, rebuilds the editor when its configuration changes and    *)
(* turns dropped files into attachments.                                    *)
(*                                                                          *)
(* Every action is one turn of the browser's event loop: the handler runs   *)
(* to completion, with every call it makes, and what it defers with         *)
(* setTimeout is appended to `tasks` and runs in a later action.            *)
(***************************************************************************)
EXTENDS Integers, Sequences, FiniteSets, TLC

\* ------------------------------------------------------------------ bounds
MaxRebuilds == 2    \* rebuildEditor() calls explored (one container node each)
MaxAttaches == 2    \* connectedCallback() calls explored
MaxFiles    == 2    \* files carried by one drop / handleFiles call
MaxCalls    == 1    \* handleFiles / add-attachment dispatch rounds explored

\* ------------------------------------------------------------------ strings
(* The strings the element reads and writes (the bound input's value, the   *)
(* result of serialize()) are modelled by their structure:                  *)
(*   kind  "empty"  the empty string                                        *)
(*         "html"   markup: a paragraph text, attachment figures and the    *)
(*                  number of attachment nodes; raw = it is not in the form *)
(*                  innerHTML / getHTML() would write it                    *)
(*         "json"   JSON.stringify of a document                            *)
(*         "text"   text that is neither markup nor valid JSON              *)
(***************************************************************************)
StrVal(kind, raw, text, figs, atts) ==
    [kind |-> kind, raw |-> raw, text |-> text, figs |-> figs, atts |-> atts]

EmptyString == StrVal("empty", FALSE, "", <<>>, 0)

\* A <figure>: trix = it has data-trix-attachment; cap = the text of its
\* <figcaption> ("" = it has none); attrs = its data-trix-attributes;
\* name = -1 without an .attachment__name element, else the number of " · "
\* glyphs in that element's text; gal = "none" (not the first child of a div),
\* "div" (first child of a div), "gallery" (that div has class attachment-gallery).
Fig(trix, cap, attrs, name, gal) ==
    [trix |-> trix, cap |-> cap, attrs |-> attrs, name |-> name, gal |-> gal]

\* A document of the editor.
Doc(text, figs, atts) == [text |-> text, figs |-> figs, atts |-> atts]

EmptyDoc == Doc("", <<>>, 0)

\* JSON.parse of a data-trix-attributes payload, then `const { caption } = ...`.
AttrsParseThrows(attrs) == attrs = "{bad"

CaptionOfAttrs(attrs) ==
    CASE attrs = "{\"caption\":\"x\"}"        -> "x"
      [] attrs = "{\"caption\":\"<b>x</b>\"}" -> "<b>x</b>"
      [] attrs = "{\"caption\":\"\"}"         -> ""
      [] OTHER                                 -> ""

\* The text of the element that insertAdjacentHTML builds from a string put
\* into markup as it is (line 455): tags in the string become elements.
TextOfMarkup(s) == IF s = "<b>x</b>" THEN "x" ELSE s

\* ------------------------------------------------------- normalizeDOM (430-472)
\* figure.querySelector("figcaption") == null among figure[data-trix-attachment]
WithoutCaption(f) == f.trix /\ f.cap = ""

\* div > figure:first-child: the parent div gets class attachment-gallery
NormalizeGallery(f) == IF f.gal = "div" THEN [f EXCEPT !.gal = "gallery"] ELSE f

\* lines 446-459: the caption of the attribute payload becomes a <figcaption>
NormalizeCaption(f) ==
    IF WithoutCaption(f) /\ f.attrs # "" /\ CaptionOfAttrs(f.attrs) # ""
    THEN [f EXCEPT !.cap = TextOfMarkup(CaptionOfAttrs(f.attrs))]
    ELSE f

\* lines 461-465: `if (el.textContent?.includes(" · ") === false) return;` and
\* then insertAdjacentText: the glyph is appended when the text has it already.
NormalizeName(f) ==
    IF f.name = -1 THEN f
    ELSE IF f.name = 0 THEN f
    ELSE [f EXCEPT !.name = @ + 1]

NormalizeFigure(f) == NormalizeName(NormalizeCaption(NormalizeGallery(f)))

\* JSON.parse(attrs) at line 451 raises for a figure without caption whose
\* payload is not JSON; nothing is written to the input then.
NormalizeThrows(v) ==
    \E i \in 1..Len(v.figs) :
        WithoutCaption(v.figs[i]) /\ v.figs[i].attrs # "" /\ AttrsParseThrows(v.figs[i].attrs)

\* The value written back at line 470: body.innerHTML of the parsed value.
NormalizeDOM(v) ==
    IF v.kind = "html"
    THEN [v EXCEPT !.raw = FALSE,
                   !.figs = [i \in 1..Len(v.figs) |-> NormalizeFigure(v.figs[i])]]
    ELSE v

\* ------------------------------------------------------------ editor engine
\* new Editor({content}) with a string: the markup is parsed into a document.
\* Text that is not markup becomes a paragraph holding that text.
ParseHTMLContent(v) ==
    CASE v.kind = "html"  -> Doc(v.text, v.figs, v.atts)
      [] v.kind = "empty" -> EmptyDoc
      [] v.kind = "json"  -> Doc("{json}", <<>>, 0)
      [] OTHER            -> Doc("{text}", <<>>, 0)

\* JSON.parse(content), line 493
JSONParseThrows(v) == v.kind \notin {"json"}

JSONParse(v) == Doc(v.text, v.figs, v.atts)

\* editor.getHTML() and JSON.stringify(editor.getJSON())
GetHTML(doc) == StrVal("html", FALSE, doc.text, doc.figs, doc.atts)

JSONStringify(doc) == StrVal("json", FALSE, doc.text, doc.figs, doc.atts)


\* ------------------------------------------------------------------- state
VARIABLES
    attached,           \* the host is connected to the document
    editor,             \* this.editor: 0 = null/undefined, else an index of editors
    editors,            \* every Editor constructed for this host, in order
    doc,                \* the document of this.editor (its state.doc)
    editable,           \* whether this.editor is editable
    slotted,            \* this.slottedEditor: the node in slot "editor", 0 = none
    nodes,              \* container nodes created so far (document.createElement)
    extensions,         \* this.__extensions__
    starterKitOptions,  \* this.__starterKitOptions__
    readonly,           \* this.readonly
    serializer,         \* this.serializer
    inputBound,         \* this.inputElement resolves to an <input>
    inputValue,         \* that input's value
    tasks,              \* callbacks deferred with setTimeout, oldest first
    attaches,           \* connectedCallback() calls so far
    events,             \* the AddAttachmentEvents dispatched on the host whose
                        \* deferred callback has not run yet, oldest first
    calls,              \* handleFiles() calls so far
    promise,            \* the promise of the last handleFiles() call
    trace               \* what the current turn of the event loop did, in order

vars == <<attached, editor, editors, doc, editable, slotted, nodes, extensions, starterKitOptions,
          readonly, serializer, inputBound, inputValue, tasks, attaches, events,
          calls, promise, trace>>

\* The host as one value, so that a handler is a function from host to host and
\* handlers compose the way the calls in the source nest.
Host ==
    [attached |-> attached, editor |-> editor, editors |-> editors,
     doc |-> doc, editable |-> editable,
     slotted |-> slotted, nodes |-> nodes, extensions |-> extensions,
     starterKitOptions |-> starterKitOptions, readonly |-> readonly,
     serializer |-> serializer, inputBound |-> inputBound,
     inputValue |-> inputValue, tasks |-> tasks, attaches |-> attaches,
     events |-> events, calls |-> calls, promise |-> promise, trace |-> <<>>]

Commit(h) ==
    /\ attached' = h.attached
    /\ editor' = h.editor
    /\ editors' = h.editors
    /\ doc' = h.doc
    /\ editable' = h.editable
    /\ slotted' = h.slotted
    /\ nodes' = h.nodes
    /\ extensions' = h.extensions
    /\ starterKitOptions' = h.starterKitOptions
    /\ readonly' = h.readonly
    /\ serializer' = h.serializer
    /\ inputBound' = h.inputBound
    /\ inputValue' = h.inputValue
    /\ tasks' = h.tasks
    /\ attaches' = h.attaches
    /\ events' = h.events
    /\ calls' = h.calls
    /\ promise' = h.promise
    /\ trace' = h.trace

\* One entry of `trace`: what happened, about which object, with which string.
Emit(h, ev, n) == [h EXCEPT !.trace = Append(@, [ev |-> ev, n |-> n, val |-> EmptyString])]

EmitVal(h, ev, n, v) == [h EXCEPT !.trace = Append(@, [ev |-> ev, n |-> n, val |-> v])]

Happened(tr, ev) == \E i \in 1..Len(tr) : tr[i].ev = ev

HappenedTo(tr, ev, n) == \E i \in 1..Len(tr) : tr[i].ev = ev /\ tr[i].n = n

Times(tr, ev, n) == Cardinality({i \in 1..Len(tr) : tr[i].ev = ev /\ tr[i].n = n})

\* ----------------------------------------------------------------- inputs
Serializers == {"", "html", "json", "JSON"}

Texts == {"Hi", "typed"}

AFigure == Fig(TRUE, "", "{\"caption\":\"x\"}", 1, "div")

SampleValues ==
    { EmptyString,
      StrVal("html", FALSE, "Hi", <<>>, 0),
      StrVal("html", TRUE, "Hi", <<AFigure>>, 0),
      StrVal("html", FALSE, "Hi", <<Fig(TRUE, "", "{bad", -1, "none")>>, 0),
      StrVal("json", FALSE, "Hi", <<>>, 0),
      StrVal("text", FALSE, "Hi", <<>>, 0) }

\* The stored values normalizeDOM is explored with: markup with one attachment
\* figure of every shape, and with two figures of a few shapes.
Payloads ==
    {"", "{}", "{\"caption\":\"\"}", "{\"caption\":\"x\"}", "{\"caption\":\"<b>x</b>\"}", "{bad"}

NormFigures ==
    {Fig(t, c, a, n, g) : t \in BOOLEAN, c \in {"", "c"}, a \in Payloads,
                          n \in {-1, 0, 1}, g \in {"none", "div", "gallery"}}

PairedFigures ==
    {AFigure, Fig(TRUE, "", "{bad", -1, "none"), Fig(TRUE, "", "", 0, "none")}

NormValues ==
    {StrVal("html", TRUE, "Hi", <<f>>, 0) : f \in NormFigures}
        \cup {StrVal("html", TRUE, "Hi", <<f, g>>, 0) : f \in PairedFigures, g \in PairedFigures}

\* --------------------------------------------------------------- the host
\* String.prototype.toLowerCase on the serializer modes
ToLowerCase(s) == IF s = "JSON" THEN "json" ELSE s

\* serialize(), lines 284-291
serialize(h) ==
    IF h.editor = 0 THEN EmptyString
    ELSE IF ToLowerCase(h.serializer) = "json"
         THEN JSONStringify(h.doc)
         ELSE GetHTML(h.doc)

\* updateInputElementValue(), lines 275-279
updateInputElementValue(h) ==
    IF h.inputBound /\ h.editor # 0 /\ ~h.readonly
    THEN [h EXCEPT !.inputValue = serialize(h)]
    ELSE h

\* __setupEditor's guard at line 561
NormalizesInput(h) == h.serializer = "" \/ h.serializer = "html"

\* __defaultOptions, lines 490-494: `this.inputElement?.value || ""`
ContentOf(h) == IF h.inputBound THEN h.inputValue ELSE EmptyString

ParsesJSON(h) == ContentOf(h).kind # "empty" /\ ToLowerCase(h.serializer) = "json"

\* (mutant) the JSON.parse of __defaultOptions is guarded: only normalizeDOM raises
SetupThrowsInNormalizeOnly(h) ==
    NormalizesInput(h) /\ h.inputBound /\ NormalizeThrows(h.inputValue)

\* __setupEditor raises: normalizeDOM's JSON.parse or __defaultOptions' JSON.parse
SetupThrows(h) ==
    \/ NormalizesInput(h) /\ h.inputBound /\ NormalizeThrows(h.inputValue)
    \/ ParsesJSON(h) /\ JSONParseThrows(ContentOf(h))

\* __setupEditor's call of normalizeDOM, lines 561-564
normalizeInput(h) ==
    IF NormalizesInput(h) /\ h.inputBound /\ ~NormalizeThrows(h.inputValue)
    THEN [h EXCEPT !.inputValue = NormalizeDOM(h.inputValue)]
    ELSE h

\* new Editor(allOptions(div)), lines 489-504 and 566: the instance, and the
\* document its `content` option gives it
NewEditor(div) == [destroyed |-> FALSE, element |-> div, bound |-> FALSE]

InitialDoc(h) ==
    IF ParsesJSON(h) THEN JSONParse(ContentOf(h)) ELSE ParseHTMLContent(ContentOf(h))

\* __bindEditorListeners / __unBindEditorListeners, lines 538-558
bindEditorListeners(h) ==
    IF h.editor = 0 THEN h ELSE [h EXCEPT !.editors[h.editor].bound = TRUE]

unBindEditorListeners(h) ==
    IF h.editor = 0 THEN h ELSE [h EXCEPT !.editors[h.editor].bound = FALSE]

\* rebuildEditor(), lines 128-153.  `why` is 0 for a setter's call and the attach
\* number for the deferred call of connectedCallback.  The new div takes the
\* slot first; when __setupEditor raises, this.editor keeps its old value.
rebuildEditor(h, why) ==
    LET div == h.nodes + 1
        h1  == [h EXCEPT !.nodes = div, !.slotted = div]
    IN  IF SetupThrows(h1)
        THEN Emit(h1, "rebuild-raised", why)
        ELSE LET h2 == normalizeInput(h1)
                 h3 == [h2 EXCEPT !.editors = Append(@, NewEditor(div)),
                                  !.editor = Len(h2.editors) + 1,
                                  !.doc = InitialDoc(h2),
                                  !.editable = ~h2.readonly]
             IN  Emit(bindEditorListeners(h3), "rebuild", why)

\* set extensions / set starterKitOptions, lines 244-248 and 118-122
setExtensions(h, x) ==
    Emit(rebuildEditor([h EXCEPT !.extensions = x], 0), "set-config", 0)

setStarterKitOptions(h, x) ==
    Emit(rebuildEditor([h EXCEPT !.starterKitOptions = x], 0), "set-config", 0)

\* What a listener of before-initialize does with the host.
ListenerActs == {"nothing", "extensions", "starterKitOptions"}

RunListener(h, act) ==
    CASE act = "extensions"        -> setExtensions(h, "custom")
      [] act = "starterKitOptions" -> setStarterKitOptions(h, "custom")
      [] OTHER                     -> h

\* (mutant) no setTimeout: the rebuild and `initialize` happen during the attach
connectedCallbackAtOnce(h, act) ==
    LET k  == h.attaches + 1
        h0 == [h EXCEPT !.attached = TRUE, !.attaches = k]
        h1 == IF h0.editor # 0 THEN Emit(unBindEditorListeners(h0), "unbind", h0.editor)
              ELSE h0
        h2 == RunListener(Emit(h1, "before-initialize", k), act)
        h3 == rebuildEditor(h2, k)
    IN  IF Happened(h3.trace, "rebuild-raised") THEN h3 ELSE Emit(h3, "initialize", k)

\* connectedCallback(), lines 191-207
connectedCallback(h, act) ==
    LET k  == h.attaches + 1
        h0 == [h EXCEPT !.attached = TRUE, !.attaches = k]
        h1 == IF h0.editor # 0 THEN Emit(unBindEditorListeners(h0), "unbind", h0.editor)
              ELSE h0
        h2 == RunListener(Emit(h1, "before-initialize", k), act)
    IN  [h2 EXCEPT !.tasks = Append(@, [kind |-> "rebuild", n |-> k])]

\* The callback deferred at lines 202-206
deferredRebuild(h, k) ==
    LET h1 == rebuildEditor(h, k)
    IN  IF Happened(h1.trace, "rebuild-raised") THEN h1
        ELSE Emit(h1, "initialize", k)

\* editor.destroy(): the view is destroyed and all listeners are removed
destroyEditor(h) ==
    Emit([h EXCEPT !.editors[h.editor].destroyed = TRUE,
                   !.editors[h.editor].bound = FALSE], "destroy", h.editor)

\* disconnectedCallback(), lines 209-213
disconnectedCallback(h) ==
    LET h0 == Emit([h EXCEPT !.attached = FALSE], "disconnected", 0)
    IN  IF h0.editor # 0 THEN destroyEditor(h0) ELSE h0

\* __handleUpdate and __handleBlur, lines 510-525
handleUpdate(h) == Emit(updateInputElementValue(h), "rhino-change", 0)

handleBlur(h) == Emit(updateInputElementValue(h), "rhino-blur", 0)

\* (mutant) updated() does not pass the change of `readonly` on to the editor
updatedWithoutSetEditable(h) == h

\* updated(), lines 163-169, after a change of `readonly`.  Editor.setEditable
\* (editable, emitUpdate = true) of @tiptap/core 2.1 sets the option and emits
\* "update", which runs __handleUpdate when the host's listeners are bound to
\* the instance; a destroyed instance has no listeners.
updated(h) ==
    IF h.editor = 0 THEN h
    ELSE LET h1 == [h EXCEPT !.editable = ~h.readonly]
         IN  IF h.editors[h.editor].bound /\ ~h.editors[h.editor].destroyed
             THEN handleUpdate(Emit(h1, "setEditable", h.editor))
             ELSE Emit(h1, "setEditable", h.editor)

\* ------------------------------------------------------ attachment intake
\* FileAcceptEvent and AddAttachmentEvent are cancelable: preventDefault() in a
\* listener sets defaultPrevented.
FileAcceptCancelable == TRUE

AddAttachmentCancelable == TRUE

\* The files 1..n of a FileList, in order
FileList(n) == [i \in 1..n |-> i]

\* The callback handleAttachment defers, lines 222-233.  Callbacks of setTimeout
\* run in the order they were deferred, so the event the callback closes over
\* is the oldest one still in `events`.
attachmentTask(h) ==
    LET ev == Head(h.events)
        h1 == EmitVal([h EXCEPT !.events = Tail(@)], "task", ev.att,
                      StrVal(IF ev.canceled THEN "canceled" ELSE "not canceled", ev.targetEl,
                             IF ev.hasFile THEN "file" ELSE "no file", <<>>, 0))
    IN  IF ev.canceled THEN h1
        ELSE IF ev.targetEl /\ ev.hasFile
             THEN Emit(h1, "upload-start", ev.att)
             ELSE h1

\* (mutant) no setTimeout: the listener looks at defaultPrevented and starts the
\* upload while the event is still being dispatched.
handleAttachmentAtOnce(h, e) ==
    LET ev == h.events[e]
        h1 == [h EXCEPT !.events = SubSeq(@, 1, e - 1)]
    IN  IF ev.canceled THEN h1
        ELSE IF ev.targetEl /\ ev.hasFile THEN Emit(h1, "upload-start", ev.att)
        ELSE h1

\* handleAttachment, lines 220-234: the host's own listener of add-attachment
\* only defers its work.
handleAttachment(h, e) ==
    [h EXCEPT !.tasks = Append(@, [kind |-> "attachment", n |-> h.events[e].att])]

\* this.dispatchEvent(new AddAttachmentEvent(attachment)): the host's listener,
\* registered in the constructor (line 184), runs first; the listeners that
\* consumers added run after it and may call preventDefault().
dispatchAddAttachment(h, att, hasFile, targetEl, cancels) ==
    LET e  == Len(h.events) + 1
        h1 == [h EXCEPT !.events = Append(@, [att |-> att, hasFile |-> hasFile,
                                              targetEl |-> targetEl, canceled |-> FALSE])]
        h2 == handleAttachment(Emit(h1, "add-attachment", att), e)
    IN  IF cancels /\ AddAttachmentCancelable
        THEN Emit([h2 EXCEPT !.events = [i \in DOMAIN @ |->
                                           IF i = e THEN [@[i] EXCEPT !.canceled = TRUE]
                                           ELSE @[i]]], "cancel", att)
        ELSE h2

\* lines 330-332: attachments.forEach(dispatch)
RECURSIVE dispatchAll(_, _, _)
dispatchAll(h, atts, cancelAdd) ==
    IF atts = <<>> THEN h
    ELSE dispatchAll(dispatchAddAttachment(h, Head(atts), TRUE, TRUE,
                                           Head(atts) \in cancelAdd),
                     Tail(atts), cancelAdd)

\* lines 308-312: one FileAcceptEvent per file; the host's own listener
\* handleFileAccept (line 237) does nothing, a consumer's listener may call
\* preventDefault() for the files in `rejected`.
RECURSIVE dispatchFileAccepts(_, _, _)
dispatchFileAccepts(h, files, rejected) ==
    IF files = <<>> THEN h
    ELSE LET h1 == Emit(h, "file-accept", Head(files))
             h2 == IF Head(files) \in rejected THEN Emit(h1, "reject", Head(files)) ELSE h1
         IN  dispatchFileAccepts(h2, Tail(files), rejected)

\* (mutant) `break` where line 319 has `continue`: the loop stops at the first
\* rejected file.
AllowedFilesUntilRejected(files, rejected) ==
    LET stops == {i \in 1..Len(files) : FileAcceptCancelable /\ files[i] \in rejected}
    IN  IF stops = {} THEN files
        ELSE SubSeq(files, 1, (CHOOSE i \in stops : \A j \in stops : i <= j) - 1)

\* lines 314-322: the files whose event was not defaultPrevented
AllowedFiles(files, rejected) ==
    SelectSeq(files, LAMBDA f : ~(FileAcceptCancelable /\ f \in rejected))

\* transformFilesToAttachments, lines 373-396: <<>> stands for `undefined`
transformFilesToAttachments(h, files) ==
    IF h.editor = 0 THEN <<>>
    ELSE IF files = <<>> THEN <<>>
    ELSE files

RECURSIVE createAttachments(_, _)
createAttachments(h, atts) ==
    IF atts = <<>> THEN h
    ELSE createAttachments(Emit(h, "new-attachment", Head(atts)), Tail(atts))

\* editor.chain().focus().setAttachment(attachments).run(), line 328: one command;
\* a destroyed editor dispatches no transaction.
setAttachment(h, atts) ==
    LET h1 == EmitVal(h, "setAttachment", Len(atts), StrVal("attachments", FALSE, "", atts, 0))
    IN  IF h.editors[h.editor].destroyed THEN h1
        ELSE [h1 EXCEPT !.doc.atts = @ + Len(atts)]

\* (mutant) the add-attachment notifications go out before the insertion command
handleFilesAnnouncingFirst(h, isNull, files, rejected, cancelAdd) ==
    LET h0 == Emit([h EXCEPT !.calls = @ + 1], "handleFiles", IF isNull THEN -1 ELSE Len(files))
    IN  IF h0.editor = 0 THEN [h0 EXCEPT !.promise = "resolved"]
        ELSE LET h1 == [h0 EXCEPT !.promise = "pending"]
             IN  IF isNull THEN h1
                 ELSE LET h2   == dispatchFileAccepts(h1, files, rejected)
                          atts == transformFilesToAttachments(h2, AllowedFiles(files, rejected))
                          h3   == createAttachments(h2, atts)
                      IN  IF atts = <<>> THEN h3
                          ELSE [setAttachment(dispatchAll(h3, atts, cancelAdd), atts)
                                    EXCEPT !.promise = "resolved"]

\* handleFiles(files), lines 302-338.  isNull: files == null; rejected: the files
\* whose file-accept a listener cancels; cancelAdd: the attachments whose
\* add-attachment a listener cancels during the dispatch.
handleFiles(h, isNull, files, rejected, cancelAdd) ==
    LET h0 == Emit([h EXCEPT !.calls = @ + 1], "handleFiles", IF isNull THEN -1 ELSE Len(files))
    IN  IF h0.editor = 0 THEN [h0 EXCEPT !.promise = "resolved"]
        ELSE LET h1 == [h0 EXCEPT !.promise = "pending"]
             IN  IF isNull THEN h1
                 ELSE LET h2   == dispatchFileAccepts(h1, files, rejected)
                          atts == transformFilesToAttachments(h2, AllowedFiles(files, rejected))
                          h3   == createAttachments(h2, atts)
                      IN  IF atts = <<>> THEN h3
                          ELSE [dispatchAll(setAttachment(h3, atts), atts, cancelAdd)
                                    EXCEPT !.promise = "resolved"]

\* (mutant) line 349, `if (!hasFiles) return;`, is missing
handleDropFileWithoutFiles(h, isDragEvent, hasDataTransfer, files, rejected, cancelAdd) ==
    LET h0 == Emit(h, "drop", Len(files))
    IN  IF h0.editor = 0 THEN h0
        ELSE IF ~isDragEvent THEN h0
        ELSE IF ~hasDataTransfer THEN h0
        ELSE handleFiles(Emit(h0, "preventDefault", 0), FALSE, files, rejected, cancelAdd)

\* handleDropFile, lines 340-354
handleDropFile(h, isDragEvent, hasDataTransfer, files, rejected, cancelAdd) ==
    LET h0 == Emit(h, "drop", Len(files))
    IN  IF h0.editor = 0 THEN h0
        ELSE IF ~isDragEvent THEN h0
        ELSE IF ~hasDataTransfer THEN h0
        ELSE IF ~(Len(files) > 0) THEN h0
        ELSE handleFiles(Emit(h0, "preventDefault", 0), FALSE, files, rejected, cancelAdd)

\* ---------------------------------------------------------------- actions
\* The host after its constructor (lines 78-108, 180-189, 239), beside an input
\* that is either absent or holds value v.
Constructed(bound, v) ==
    [attached |-> FALSE, editor |-> 0, editors |-> <<>>, doc |-> EmptyDoc,
     editable |-> FALSE, slotted |-> 0, nodes |-> 0, extensions |-> "none",
     starterKitOptions |-> "none", readonly |-> FALSE, serializer |-> "html",
     inputBound |-> bound, inputValue |-> v, tasks |-> <<>>, attaches |-> 0,
     events |-> <<>>, calls |-> 0, promise |-> "none", trace |-> <<>>]

StartsAs(h) ==
    /\ attached = h.attached
    /\ editor = h.editor
    /\ editors = h.editors
    /\ doc = h.doc
    /\ editable = h.editable
    /\ slotted = h.slotted
    /\ nodes = h.nodes
    /\ extensions = h.extensions
    /\ starterKitOptions = h.starterKitOptions
    /\ readonly = h.readonly
    /\ serializer = h.serializer
    /\ inputBound = h.inputBound
    /\ inputValue = h.inputValue
    /\ tasks = h.tasks
    /\ attaches = h.attaches
    /\ events = h.events
    /\ calls = h.calls
    /\ promise = h.promise
    /\ trace = <<>>

Init ==
    \/ \E v \in SampleValues : StartsAs(Constructed(TRUE, v))
    \/ StartsAs(Constructed(FALSE, EmptyString))

CanRebuild == nodes < MaxRebuilds

Attach ==
    /\ ~attached
    /\ attaches < MaxAttaches
    /\ \E act \in ListenerActs :
        /\ act # "nothing" => CanRebuild
        /\ Commit(connectedCallback(Host, act))

Detach ==
    /\ attached
    /\ Commit(disconnectedCallback(Host))

RunRebuildTask ==
    /\ tasks # <<>>
    /\ Head(tasks).kind = "rebuild"
    /\ CanRebuild
    /\ Commit(deferredRebuild([Host EXCEPT !.tasks = Tail(@)], Head(tasks).n))

SetExtensions ==
    /\ CanRebuild
    /\ Commit(setExtensions(Host, "custom"))

SetStarterKitOptions ==
    /\ CanRebuild
    /\ Commit(setStarterKitOptions(Host, "custom"))

SetSerializer ==
    \E s \in Serializers :
        /\ s # serializer
        /\ Commit([Host EXCEPT !.serializer = s])

\* `readonly` changes; Lit then calls updated() with "readonly" among the
\* changed properties.
SetReadonly ==
    \E b \in BOOLEAN :
        /\ b # readonly
        /\ Commit(updated(Emit([Host EXCEPT !.readonly = b], "readonly", 0)))

\* The user (or a command) changes the document of the mounted editor, which
\* emits "update" to the listeners bound to it.
UserEdit ==
    /\ editor # 0
    /\ ~editors[editor].destroyed
    /\ \E t \in Texts :
        /\ t # doc.text
        /\ LET h == Emit([Host EXCEPT !.doc.text = t], "edit", editor)
           IN  Commit(IF editors[editor].bound THEN handleUpdate(h) ELSE h)

\* An editor instance loses focus and emits "blur" to the listeners bound to it.
EditorBlur ==
    \E i \in 1..Len(editors) :
        /\ ~editors[i].destroyed
        /\ editors[i].bound
        /\ Commit(handleBlur(Emit(Host, "blur", i)))

\* A consumer calls updateInputElementValue() / serialize(); `serialize` in the
\* trace carries the string returned.
CallUpdateInputElementValue ==
    \E h \in {updateInputElementValue(Host)} :
        Commit(Emit(h, "updateInputElementValue", 0))

CallSerialize ==
    \E v \in {serialize(Host)} :
        Commit(EmitVal(Host, "serialize", 0, v))

CallHandleFiles ==
    /\ calls < MaxCalls
    /\ \E isNull \in BOOLEAN, n \in 0..MaxFiles :
        \E rejected \in SUBSET (1..n), cancelAdd \in SUBSET (1..n) :
            /\ isNull => (n = 0 /\ rejected = {} /\ cancelAdd = {})
            /\ cancelAdd \cap rejected = {}
            /\ Commit(handleFiles(Host, isNull, FileList(n), rejected, cancelAdd))

\* A "drop" event reaches the host's listener (line 186).  A DragEvent without
\* dataTransfer, or an event that is no DragEvent, carries no files.
Drop ==
    /\ calls < MaxCalls
    /\ \E isDragEvent \in BOOLEAN, hasDataTransfer \in BOOLEAN, n \in 0..MaxFiles :
        \E rejected \in SUBSET (1..n), cancelAdd \in SUBSET (1..n) :
            /\ ~(isDragEvent /\ hasDataTransfer) => n = 0
            /\ cancelAdd \cap rejected = {}
            /\ Commit(handleDropFile(Host, isDragEvent, hasDataTransfer, FileList(n),
                                     rejected, cancelAdd))

\* Code outside handleFiles dispatches an AddAttachmentEvent that reaches the host.
ExternalAddAttachment ==
    /\ Len(events) < MaxCalls
    /\ \E hasFile \in BOOLEAN, targetEl \in BOOLEAN, cancels \in BOOLEAN :
        Commit(dispatchAddAttachment(Host, 0, hasFile, targetEl, cancels))

\* A consumer that kept the event calls preventDefault() after the dispatch and
\* before the deferred callback runs.
CancelLater ==
    \E e \in 1..Len(events) :
        /\ ~events[e].canceled
        /\ AddAttachmentCancelable
        /\ Commit(Emit([Host EXCEPT !.events[e].canceled = TRUE], "cancel-later", e))

RunAttachmentTask ==
    /\ tasks # <<>>
    /\ Head(tasks).kind = "attachment"
    /\ Commit(attachmentTask([Host EXCEPT !.tasks = Tail(@)]))

Next ==
    \/ Attach
    \/ Detach
    \/ RunRebuildTask
    \/ SetExtensions
    \/ SetStarterKitOptions
    \/ SetSerializer
    \/ UserEdit
    \/ EditorBlur
    \/ CallUpdateInputElementValue
    \/ CallSerialize

Spec == Init /\ [][Next]_vars

\* The synchronisation of the bound input under changes of `readonly`.
SyncNext ==
    \/ Attach
    \/ Detach
    \/ RunRebuildTask
    \/ SetReadonly
    \/ UserEdit
    \/ EditorBlur
    \/ CallUpdateInputElementValue

SyncSpec == Init /\ [][SyncNext]_vars

\* The attachment intake.  Its handlers read of the host only this.editor, so it
\* starts from the three states of this.editor that Spec reaches: never built,
\* built by the deferred callback of an attach, and destroyed by a detach.
NeverBuilt == Constructed(FALSE, EmptyString)

Built == deferredRebuild([connectedCallback(NeverBuilt, "nothing") EXCEPT !.tasks = <<>>], 1)

Detached == disconnectedCallback(Built)

FilesInit == \E h \in {NeverBuilt, Built, Detached} : StartsAs(h)

FilesNext ==
    \/ CallHandleFiles
    \/ Drop
    \/ ExternalAddAttachment
    \/ CancelLater
    \/ RunAttachmentTask

FilesSpec == FilesInit /\ [][FilesNext]_vars

\* The normalization of stored markup: a host in one of the html modes beside
\* an input that holds v, rebuilt by attaches and by the setters.
NormInit ==
    \E v \in NormValues, s \in {"", "html"} :
        StartsAs([Constructed(TRUE, v) EXCEPT !.serializer = s])

NormNext ==
    \/ Attach
    \/ RunRebuildTask
    \/ SetExtensions
    \/ SetStarterKitOptions

NormSpec == NormInit /\ [][NormNext]_vars

\* ------------------------------------------------------------------ claims
\* The editor instances constructed for this host that were not destroyed
LiveEditors == {i \in 1..Len(editors) : ~editors[i].destroyed}

\* The host has no live editor: none was built, or the one it holds is destroyed
NoLiveEditor == editor = 0 \/ editors[editor].destroyed

\* The attachments the current turn passed to setAttachment
Inserted ==
    IF Happened(trace, "setAttachment")
    THEN trace[CHOOSE i \in 1..Len(trace) : trace[i].ev = "setAttachment"].val.figs
    ELSE <<>>

InsertedTimes(f) == Cardinality({i \in 1..Len(Inserted) : Inserted[i] = f})

\* C1: after every assignment to `extensions` or `starterKitOptions` on an
\* attached host, exactly one editor instance constructed for the host is not
\* destroyed, the host holds it, and it renders into a container node that no
\* earlier instance used.
C1_OneLiveEditorAfterAssignment ==
    (attached /\ Happened(trace, "set-config") /\ ~Happened(trace, "rebuild-raised")) =>
        /\ Cardinality(LiveEditors) = 1
        /\ editor \in LiveEditors
        /\ \A i \in 1..Len(editors) :
              i # editor => editors[i].element # editors[editor].element

\* C2: the promise of every handleFiles() call is resolved when the call has
\* done its work; without a live editor, or with no files, it dispatches and
\* inserts nothing.
C2_HandleFilesResolves ==
    Happened(trace, "handleFiles") =>
        /\ promise = "resolved"
        /\ (NoLiveEditor \/ HappenedTo(trace, "handleFiles", 0)
                         \/ HappenedTo(trace, "handleFiles", -1)) =>
              /\ ~Happened(trace, "file-accept")
              /\ ~Happened(trace, "setAttachment")
              /\ ~Happened(trace, "add-attachment")

\* C3: in a handleFiles() call on a host that holds an editor, every input file
\* gets a file-accept notification, and a file is among the attachments passed
\* to the insertion command, and gets an add-attachment notification, exactly
\* when its file-accept notification was not canceled; a canceled notification
\* excludes no other file.
C3_CanceledFileAcceptExcludesExactlyThatFile ==
    \A n \in 0..MaxFiles :
        (HappenedTo(trace, "handleFiles", n) /\ editor # 0) =>
            \A f \in 1..n :
                /\ Times(trace, "file-accept", f) = 1
                /\ HappenedTo(trace, "reject", f) <=> InsertedTimes(f) = 0
                /\ HappenedTo(trace, "reject", f) <=> ~HappenedTo(trace, "add-attachment", f)

\* C3, witness: the first of two files was rejected and the second one was
\* inserted and announced all the same.
C3_Witness ==
    /\ HappenedTo(trace, "handleFiles", 2)
    /\ HappenedTo(trace, "reject", 1)
    /\ InsertedTimes(2) = 1
    /\ HappenedTo(trace, "add-attachment", 2)

\* C4 as stated: a drop without files is left to the browser and produces
\* nothing; a drop with files has its default prevented and exactly one
\* attachment created and inserted for each accepted file.
C4_DropAsStated ==
    \A n \in 0..MaxFiles :
        HappenedTo(trace, "drop", n) =>
            /\ n = 0 => /\ ~Happened(trace, "preventDefault")
                        /\ ~Happened(trace, "file-accept")
                        /\ ~Happened(trace, "new-attachment")
                        /\ ~Happened(trace, "setAttachment")
            /\ n >= 1 => /\ Happened(trace, "preventDefault")
                         /\ \A f \in 1..n :
                               LET k == IF HappenedTo(trace, "reject", f) THEN 0 ELSE 1
                               IN  /\ Times(trace, "new-attachment", f) = k
                                   /\ InsertedTimes(f) = k

\* C4, amended: a drop without files, and any drop on a host that holds no
\* editor, is left to the browser and produces nothing; a drop with files on a
\* host that holds an editor has its default prevented, and exactly one
\* attachment is created and inserted for each accepted file.
C4_DropOnHostWithEditor ==
    \A n \in 0..MaxFiles :
        HappenedTo(trace, "drop", n) =>
            /\ (n = 0 \/ editor = 0) =>
                  /\ ~Happened(trace, "preventDefault")
                  /\ ~Happened(trace, "file-accept")
                  /\ ~Happened(trace, "new-attachment")
                  /\ ~Happened(trace, "setAttachment")
            /\ (n >= 1 /\ editor # 0) =>
                  /\ Happened(trace, "preventDefault")
                  /\ \A f \in 1..n :
                        LET k == IF HappenedTo(trace, "reject", f) THEN 0 ELSE 1
                        IN  /\ Times(trace, "file-accept", f) = 1
                            /\ Times(trace, "new-attachment", f) = k
                            /\ InsertedTimes(f) = k

\* C4, witness: a drop of two files on a host with an editor, the first one
\* rejected, the second one inserted.
C4_Witness ==
    /\ HappenedTo(trace, "drop", 2)
    /\ editor # 0
    /\ Happened(trace, "preventDefault")
    /\ HappenedTo(trace, "reject", 1)
    /\ InsertedTimes(2) = 1

\* C5: every add-attachment notification has exactly one deferred callback of
\* handleAttachment pending until that callback runs; an upload starts only in
\* that callback, a turn after the dispatch, never when the notification was
\* canceled by then (by a listener that ran after the host's own, or later), and
\* exactly once when it was not canceled, carries a file and targets an element.
C5_OneCallbackPerEvent ==
    Cardinality({i \in 1..Len(tasks) : tasks[i].kind = "attachment"}) = Len(events)

C5_UploadStep ==
    /\ Happened(trace', "add-attachment") => ~Happened(trace', "upload-start")
    /\ Happened(trace', "upload-start") =>
          /\ events # <<>>
          /\ events' = Tail(events)
          /\ ~Head(events).canceled
          /\ Head(events).hasFile
          /\ Head(events).targetEl
    /\ (events # <<>> /\ Happened(trace', "task")) =>
          LET ev == Head(events)
              k  == IF ~ev.canceled /\ ev.hasFile /\ ev.targetEl THEN 1 ELSE 0
          IN  Cardinality({i \in 1..Len(trace') : trace'[i].ev = "upload-start"}) = k

C5_UploadOnlyLaterAndUnlessCanceled ==
    [](C5_OneCallbackPerEvent) /\ [][C5_UploadStep]_vars

\* C5, witness: an upload starts for one notification while the next one,
\* canceled, still waits for its callback.
C5_Witness ==
    /\ Happened(trace, "upload-start")
    /\ events # <<>>
    /\ Head(events).canceled

\* The string serialize() has to return for a host in the current state
ExpectedSerialization ==
    IF NoLiveEditor THEN EmptyString
    ELSE IF ToLowerCase(serializer) = "json" THEN JSONStringify(doc)
    ELSE GetHTML(doc)

\* The turn called updateInputElementValue(), directly or from the update or
\* blur callback
CalledUpdateInput(tr) ==
    \/ Happened(tr, "updateInputElementValue")
    \/ Happened(tr, "rhino-change")
    \/ Happened(tr, "rhino-blur")

\* C6: updateInputElementValue(), called directly or from the update and blur
\* callbacks, leaves the bound input's value as it was while `readonly` is
\* true, when no editor is live and when the input is not resolved, and sets
\* it to serialize() otherwise.
C6_UpdateInputStep ==
    CalledUpdateInput(trace') =>
        IF readonly' \/ NoLiveEditor' \/ ~inputBound'
        THEN inputValue' = inputValue
        ELSE inputValue' = ExpectedSerialization'

C6_UpdateInputElementValue == [][C6_UpdateInputStep]_vars

\* C7: an assignment of `extensions` or `starterKitOptions` on a host that has
\* loaded an editor replaces the editor with a distinct instance, and the
\* rebuild leaves the bound input's value as it was.
C7_RebuildStep ==
    (Happened(trace', "set-config") /\ editor # 0) =>
        /\ editor' # editor
        /\ inputValue' = inputValue

C7_RebuildLeavesInput == [][C7_RebuildStep]_vars

\* C8: serialize() returns the empty string when the host has no live editor,
\* else the JSON-stringified document when the serializer mode is `json` in any
\* case, else the HTML string; and it changes neither the document, the editor
\* reference, the serializer mode nor the bound input.
C8_SerializeStep ==
    Happened(trace', "serialize") =>
        /\ trace'[1].val = ExpectedSerialization
        /\ UNCHANGED <<doc, editor, editors, serializer, inputValue>>

C8_Serialize == [][C8_SerializeStep]_vars

\* C9: before-initialize is dispatched in the turn of the attach, after the
\* listeners of an editor the host already held were unbound; the rebuild of
\* that attach is deferred and runs in a later turn; and initialize of an
\* attach is dispatched only after the rebuild of that attach has completed, in
\* the same deferred callback.
C9_AttachTurn ==
    \A k \in 1..attaches :
        /\ HappenedTo(trace, "before-initialize", k) =>
              /\ k = attaches
              /\ ~HappenedTo(trace, "rebuild", k)
              /\ ~HappenedTo(trace, "rebuild-raised", k)
              /\ ~HappenedTo(trace, "initialize", k)
              /\ \E i \in 1..Len(tasks) : tasks[i] = [kind |-> "rebuild", n |-> k]
              /\ \A i, j \in 1..Len(trace) :
                    (trace[i].ev = "unbind" /\ trace[j].ev = "before-initialize") => i < j
        /\ HappenedTo(trace, "initialize", k) =>
              /\ Times(trace, "initialize", k) = 1
              /\ \E i, j \in 1..Len(trace) :
                    /\ i < j
                    /\ trace[i].ev = "rebuild" /\ trace[i].n = k
                    /\ trace[j].ev = "initialize" /\ trace[j].n = k

C9_AttachStep ==
    (Happened(trace', "before-initialize") /\ editor # 0) =>
        /\ trace'[1].ev = "unbind"
        /\ trace'[1].n = editor
        /\ ~editors'[editor].bound

C9_AttachOrder == [](C9_AttachTurn) /\ [][C9_AttachStep]_vars

\* C9, witness: the deferred rebuild of a second attach has completed and its
\* initialize was dispatched.
C9_Witness ==
    /\ HappenedTo(trace, "initialize", 2)
    /\ HappenedTo(trace, "rebuild", 2)

\* C10: a detach destroys the editor the host holds and sets the host's editor
\* reference to null, so that the host has no live editor afterwards and
\* serialize() returns the empty string; a detach of a host without editor
\* changes nothing of the editor, the document or the input.
C10_DetachStep ==
    Happened(trace', "disconnected") =>
        /\ editor' = 0
        /\ editor # 0 => editors'[editor].destroyed
        /\ serialize(Host)' = EmptyString
        /\ editor = 0 => UNCHANGED <<editors, doc, inputValue>>

C10_DetachDestroysAndNulls == [][C10_DetachStep]_vars

\* The current turn called rebuildEditor()
Rebuilt(tr) == Happened(tr, "rebuild") \/ Happened(tr, "rebuild-raised")

\* The caption field of a figure's attribute payload ("" = it has none)
CaptionField(f) == IF f.attrs = "" \/ AttrsParseThrows(f.attrs) THEN "" ELSE CaptionOfAttrs(f.attrs)

\* C11: a rebuild in an html mode processes the stored value so that an
\* attachment figure without caption child gets a caption element with text x
\* exactly when its attribute payload has a non-empty caption field x; a figure
\* that has a caption child, no payload or a payload without caption field
\* gets none, and such figures make the rebuild fail in no case.
C11_CaptionStep ==
    (Rebuilt(trace') /\ NormalizesInput(Host) /\ inputBound /\ inputValue.kind = "html") =>
        /\ Len(inputValue'.figs) = Len(inputValue.figs)
        /\ \A i \in 1..Len(inputValue.figs) :
              LET f == inputValue.figs[i]
              IN  inputValue'.figs[i].cap =
                      IF WithoutCaption(f) /\ CaptionField(f) # "" THEN CaptionField(f) ELSE f.cap
        /\ (\A i \in 1..Len(inputValue.figs) : ~AttrsParseThrows(inputValue.figs[i].attrs))
              => ~Happened(trace', "rebuild-raised")

C11_CaptionFromPayload == [][C11_CaptionStep]_vars

\* C12: normalization never fails: whatever the stored value, a payload that
\* is not valid JSON included, a rebuild in an html mode raises nothing and
\* goes on to construct the editor, which the host then holds.
C12_NormalizeStep ==
    (Rebuilt(trace') /\ NormalizesInput(Host)) =>
        /\ ~Happened(trace', "rebuild-raised")
        /\ Len(editors') = Len(editors) + 1
        /\ editor' = Len(editors')

C12_NormalizationNeverFails == [][C12_NormalizeStep]_vars

\* C13 as stated: a change of `readonly` leaves the editor instance, its
\* container node and the bound input's value as they were, constructs no
\* editor, and the editor the host holds is editable exactly when `readonly`
\* is false.
C13_ReadonlyStep ==
    Happened(trace', "readonly") =>
        /\ editor' = editor
        /\ editors' = editors
        /\ slotted' = slotted
        /\ nodes' = nodes
        /\ ~Rebuilt(trace')
        /\ editor # 0 => editable' = ~readonly'

C13_ReadonlyAsStated ==
    [][C13_ReadonlyStep /\ (Happened(trace', "readonly") => inputValue' = inputValue)]_vars

\* C13, amended: a change of `readonly` leaves the editor instance and its
\* container node as they were and constructs no editor; the editor the host
\* holds is editable exactly when `readonly` is false, in every state; the
\* bound input's value is as it was when `readonly` became true, and when it
\* became false it is as it was or, the host's listeners being bound to the
\* editor, the serialization of the document (the update callback ran).
C13_EditableFollowsReadonly == editor # 0 => editable = ~readonly

C13_InputStep ==
    Happened(trace', "readonly") =>
        IF ~readonly' /\ inputBound /\ editor # 0 /\ editors[editor].bound
        THEN inputValue' = ExpectedSerialization'
        ELSE inputValue' = inputValue

C13_ReadonlyTogglesEditable ==
    [](C13_EditableFollowsReadonly) /\ [][C13_ReadonlyStep /\ C13_InputStep]_vars

\* C13, witness: `readonly` became false on a host whose editor has the
\* listeners bound, the editor is editable again, and no editor was built.
C13_Witness ==
    /\ Happened(trace, "readonly")
    /\ Happened(trace, "setEditable")
    /\ ~readonly
    /\ editable
    /\ editor # 0
    /\ editors[editor].bound
    /\ ~Rebuilt(trace)

\* C14: in json mode (in any case of the word) with a bound input whose
\* non-empty value is not valid JSON, a rebuild, called from a setter or from
\* the deferred callback of an attach, raises to its caller: no editor is
\* constructed, the host holds what it held, and the deferred callback does not
\* get to dispatch initialize.  With an empty or unresolved input nothing is
\* parsed and nothing raised: the editor is constructed with an empty document.
C14_JSONStep ==
    (Rebuilt(trace') /\ ToLowerCase(serializer) = "json") =>
        /\ (inputBound /\ inputValue.kind \in {"html", "text"}) =>
              /\ Happened(trace', "rebuild-raised")
              /\ ~Happened(trace', "rebuild")
              /\ ~Happened(trace', "initialize")
              /\ Len(editors') = Len(editors)
              /\ editor' = editor
              /\ inputValue' = inputValue
        /\ (~inputBound \/ inputValue.kind = "empty") =>
              /\ ~Happened(trace', "rebuild-raised")
              /\ Len(editors') = Len(editors) + 1
              /\ editor' = Len(editors')
              /\ doc' = EmptyDoc

C14_JSONParsePropagates == [][C14_JSONStep]_vars

\* C14, witness: the deferred rebuild of an attach raised in json mode over a
\* stored value that is no JSON, and the host still has no editor.
C14_Witness ==
    /\ \E k \in 1..attaches : HappenedTo(trace, "rebuild-raised", k)
    /\ ToLowerCase(serializer) = "json"
    /\ inputBound
    /\ inputValue.kind \in {"html", "text"}
    /\ editor = 0

\* C15: a listener of before-initialize that assigns `extensions` or
\* `starterKitOptions` changes the configuration before any editor mounts: the
\* turn of the attach, in which before-initialize is dispatched, constructs no
\* editor and puts no container node into the host, and the deferred turn of
\* that attach constructs exactly one editor.
C15_AttachStep ==
    /\ Happened(trace', "before-initialize") =>
          /\ Len(editors') = Len(editors)
          /\ nodes' = nodes
          /\ editor' = editor
    /\ Happened(trace', "initialize") => Len(editors') = Len(editors) + 1

C15_ListenerConfiguresBeforeMount == [][C15_AttachStep]_vars

\* The subjects of the entries `ev` of a turn, in the order they happened
Subjects(tr, ev) ==
    LET es == SelectSeq(tr, LAMBDA e : e.ev = ev)
    IN  [i \in 1..Len(es) |-> es[i].n]

\* Every entry `a` of the turn comes before every entry `b`
AllBefore(tr, a, b) ==
    \A i, j \in 1..Len(tr) : (tr[i].ev = a /\ tr[j].ev = b) => i < j

\* C16: in a handleFiles() call with at least one accepted file, every input
\* file gets its file-accept notification, in input order; then one insertion
\* command carries the attachments of all accepted files in input order; then
\* every inserted attachment gets one add-attachment notification, in the same
\* order, none of them before the insertion.
C16_HandleFilesOrder ==
    \A n \in 0..MaxFiles :
        (HappenedTo(trace, "handleFiles", n) /\ Happened(trace, "setAttachment")) =>
            /\ Subjects(trace, "file-accept") = FileList(n)
            /\ Len(Subjects(trace, "setAttachment")) = 1
            /\ Inserted # <<>>
            /\ Inserted = SelectSeq(FileList(n), LAMBDA f : ~HappenedTo(trace, "reject", f))
            /\ Subjects(trace, "add-attachment") = Inserted
            /\ AllBefore(trace, "file-accept", "setAttachment")
            /\ AllBefore(trace, "setAttachment", "add-attachment")

\* C16, witness: two files, both accepted, inserted by one command and
\* announced one after the other.
C16_Witness ==
    /\ HappenedTo(trace, "handleFiles", 2)
    /\ Inserted = <<1, 2>>
    /\ Subjects(trace, "add-attachment") = <<1, 2>>
    /\ Len(Subjects(trace, "setAttachment")) = 1

\* C17: after a rebuild the host's listeners are bound to the current editor
\* instance only, so an event that an earlier instance emits (here: blur)
\* neither writes the bound input nor dispatches a notification on the host.
C17_BoundToCurrentOnly ==
    \A i \in 1..Len(editors) : editors[i].bound => i = editor

C17_EarlierInstanceStep ==
    \A i \in 1..Len(editors) :
        (HappenedTo(trace', "blur", i) /\ i # editor) =>
            /\ inputValue' = inputValue
            /\ ~Happened(trace', "rhino-blur")

C17_PreviousInstanceUnreachable ==
    [](C17_BoundToCurrentOnly) /\ [][C17_EarlierInstanceStep]_vars

\* C18: a rebuild in an html mode that normalizes the stored markup appends
\* the separator glyph to the text of every attachment-name element that does
\* not contain it, and leaves a text that contains it as it is.
C18_SeparatorStep ==
    (Happened(trace', "rebuild") /\ NormalizesInput(Host) /\ inputBound
                                 /\ inputValue.kind = "html") =>
        /\ Len(inputValue'.figs) = Len(inputValue.figs)
        /\ \A i \in 1..Len(inputValue.figs) :
              LET f == inputValue.figs[i]
              IN  inputValue'.figs[i].name =
                      IF f.name = 0 THEN 1 ELSE f.name

C18_SeparatorAppendedIfAbsent == [][C18_SeparatorStep]_vars

\* C19: once the host is detached, and not attached again, and every deferred
\* task has run, no editor constructed for the host is left undestroyed; a
\* detach that comes before the deferred rebuild of its attach leaves no
\* editor that is built afterwards and never destroyed.
C19_NoEditorLeftAfterDetach ==
    (~attached /\ attaches > 0 /\ tasks = <<>>) => LiveEditors = {}

\* C20: in an html mode, of two rebuilds in consecutive turns, with no edit
\* between them, the second leaves the bound input's value as the first left
\* it.
C20_SecondRebuildStep ==
    (Happened(trace, "rebuild") /\ Happened(trace', "rebuild")
        /\ NormalizesInput(Host) /\ inputBound) => inputValue' = inputValue

C20_NormalizationIdempotent == [][C20_SecondRebuildStep]_vars

====
